---- MODULE Spec2Model ----
(***************************************************************************)
(* A model of the dependency-aware task resolver of src/src/resolver.ts.   *)
(*                                                                         *)
(* The engine instance holds the task registry (a Map, kept here as the    *)
(* sequence of its entries in insertion order) and the stored global       *)
(* arguments.  resolve() returns a cold stream (defer): every subscription *)
(* to it is one resolution, a "run", with its own deferred handles         *)
(* (taskResults), its own cancellation signal (destroy) and one unit of    *)
(* execution per task.                                                     *)
(*                                                                         *)
(* Steps are the synchronous blocks of the code: a register call, a        *)
(* setGlobalArgs call, the subscription (the whole defer factory), the     *)
(* callback of a unit's forkJoin over its producers' promises, the         *)
(* settling of a task's own promise or stream, the consumer's              *)
(* unsubscription and the callback of the final forkJoin.                  *)
(***************************************************************************)
EXTENDS Integers, Sequences, FiniteSets, TLC

\* Bounds of the model.
MaxTasks == 3
MaxDeps == 2
MaxRuns == 1
MaxArgTasks == 2
MaxArgRuns == 2
MaxRegTasks == 4

VARIABLES
    tasks,               \* this.tasks: the registry, in insertion order
    raised,              \* the error the most recent register call threw, or "none"
    globalArgs,          \* this.globalArgs
    phase,               \* per run: where the consumer's subscription stands
    options,             \* per run: the options object resolve() was called with
    effectiveGlobalArgs, \* per run: the value captured at resolver.ts:253
    taskResults,         \* per run: task id -> the promise of its deferred handle
    unit,                \* per run: task id -> where the task's unit stands
    calls,               \* per run: task id -> the invocations of task.fn, in order
    finalized,           \* per run: task id -> how often the returned stream was torn down
    destroy,             \* per run: whether the destroy subject has fired
    emitted              \* per run: the values delivered to the consumer, in order

vars == <<tasks, raised, globalArgs, phase, options, effectiveGlobalArgs, taskResults,
          unit, calls, finalized, destroy, emitted>>

runVars == <<phase, options, effectiveGlobalArgs, taskResults, unit, calls,
             finalized, destroy, emitted>>

----------------------------------------------------------------------------
\* Values

TaskIds == 1..MaxTasks

\* The resolutions of the behaviour: one per subscription that can be made.
Runs == DOMAIN phase

\* What task.fn hands back when it is called: an immediate value or a
\* synchronous throw ("value"), a promise, a stream that emits later, or a
\* stream that emits or fails while it is being subscribed ("syncStream").
\* What a promise or a later stream comes to is decided when it settles.
Returns ==
    {[shape |-> s, failed |-> f] : s \in {"value", "syncStream"}, f \in BOOLEAN}
    \cup {[shape |-> "promise"], [shape |-> "stream"]}

\* The task functions of the arguments specification: an immediate value or a
\* promise.
ArgReturns == {[shape |-> "value", failed |-> FALSE], [shape |-> "promise"]}

\* The task functions of the streams specification: a stream that emits later
\* or one that emits while it is being subscribed.
StreamReturns == {[shape |-> "stream"], [shape |-> "syncStream", failed |-> FALSE]}

GlobalArgsValues == {"undefined", "Hello"}

\* The values a per-call globalArgs override is given: an explicit undefined
\* and a value the instance never stores.
OverrideValues == {"undefined", "Temp"}

NoOptions == [k \in {} |-> TRUE]

\* resolve(options?): withLoadingState omitted, true or false.
LoadingOptions ==
    {NoOptions, [withLoadingState |-> TRUE], [withLoadingState |-> FALSE]}

\* resolve(options?): globalArgs omitted or given, or the documented
\* maxIterations given.
ArgsOptions ==
    {NoOptions, [maxIterations |-> 1]} \cup {[globalArgs |-> g] : g \in OverrideValues}

\* How the consumer observes: to the end (until it unsubscribes), or only the
\* first value (firstValueFrom, take(1)), leaving from inside its next handler.
Consumers == {"all", "first"}

Range(s) == {s[i] : i \in DOMAIN s}

SeqsUpTo(S, n) == UNION {[1..k -> S] : k \in 0..n}

Count(s, x) == Cardinality({i \in DOMAIN s : s[i] = x})

Repeat(x, n) == [i \in 1..n |-> x]

EmptyMap == [k \in {} |-> TRUE]

Pending == [state |-> "pending"]

Fulfilled(v) == [state |-> "fulfilled", value |-> v]

----------------------------------------------------------------------------
\* Result discriminators

isSuccess(value) == "data" \in DOMAIN value

isError(value) == "error" \in DOMAIN value

isLoading(value) == "loading" \in DOMAIN value /\ value.loading

\* hasNoErrors with some() in place of every().
hasNoErrorsSome(result) == \E k \in DOMAIN result : isSuccess(result[k])

hasNoErrors(result) == \A k \in DOMAIN result : isSuccess(result[k])

LoadingMarker == [loading |-> TRUE]

----------------------------------------------------------------------------
\* The registry

Ids == {tasks[i].id : i \in DOMAIN tasks}

Has(id) == id \in Ids

Get(id) == tasks[CHOOSE i \in DOMAIN tasks : tasks[i].id = id]

TaskInfo(id, dependencies) ==
    [id |-> id, producers |-> dependencies, consumers |-> <<>>]

\* register without the duplicate check: Map.set replaces the entry of an id
\* that is registered already.
RegisterOverwrite(id, dependencies) ==
    /\ IF \E i \in DOMAIN dependencies : ~Has(dependencies[i])
       THEN /\ raised' = "unknownDependency"
            /\ UNCHANGED tasks
       ELSE /\ raised' = "none"
            /\ tasks' = IF Has(id)
                   THEN [i \in DOMAIN tasks |->
                           IF tasks[i].id = id THEN TaskInfo(id, dependencies)
                           ELSE [tasks[i] EXCEPT !.consumers =
                                   @ \o Repeat(id, Count(dependencies, tasks[i].id))]]
                   ELSE Append(
                           [i \in DOMAIN tasks |->
                               [tasks[i] EXCEPT !.consumers =
                                   @ \o Repeat(id, Count(dependencies, tasks[i].id))]],
                           TaskInfo(id, dependencies))
    /\ UNCHANGED <<globalArgs, runVars>>

\* register that checks a dependency only when it reaches it in the loop: the
\* consumers of the registered dependencies are extended before it throws.
RegisterPartial(id, dependencies) ==
    /\ IF Has(id)
       THEN /\ raised' = "duplicate"
            /\ UNCHANGED tasks
       ELSE IF \E i \in DOMAIN dependencies : ~Has(dependencies[i])
       THEN /\ raised' = "unknownDependency"
            /\ tasks' = [i \in DOMAIN tasks |->
                            [tasks[i] EXCEPT !.consumers =
                                @ \o Repeat(id, Count(dependencies, tasks[i].id))]]
       ELSE /\ raised' = "none"
            /\ tasks' = Append(
                   [i \in DOMAIN tasks |->
                       [tasks[i] EXCEPT !.consumers =
                           @ \o Repeat(id, Count(dependencies, tasks[i].id))]],
                   TaskInfo(id, dependencies))
    /\ UNCHANGED <<globalArgs, runVars>>

\* register without the check of the dependencies: a task may name itself or
\* an id that is registered later.
RegisterForward(id, dependencies) ==
    /\ IF Has(id)
       THEN /\ raised' = "duplicate"
            /\ UNCHANGED tasks
       ELSE /\ raised' = "none"
            /\ tasks' = Append(
                   [i \in DOMAIN tasks |->
                       [tasks[i] EXCEPT !.consumers =
                           @ \o Repeat(id, Count(dependencies, tasks[i].id))]],
                   TaskInfo(id, dependencies))
    /\ UNCHANGED <<globalArgs, runVars>>

\* register that pushes the id once per listed producer, however often the
\* list names it.
RegisterOnce(id, dependencies) ==
    /\ IF Has(id)
       THEN /\ raised' = "duplicate"
            /\ UNCHANGED tasks
       ELSE IF \E i \in DOMAIN dependencies : ~Has(dependencies[i])
       THEN /\ raised' = "unknownDependency"
            /\ UNCHANGED tasks
       ELSE /\ raised' = "none"
            /\ tasks' = Append(
                   [i \in DOMAIN tasks |->
                       [tasks[i] EXCEPT !.consumers =
                           IF tasks[i].id \in Range(dependencies)
                           THEN Append(@, id) ELSE @]],
                   TaskInfo(id, dependencies))
    /\ UNCHANGED <<globalArgs, runVars>>

\* register(task, dependencies): throws (and changes nothing) on a duplicate id
\* or on a dependency that is not registered; otherwise inserts the task and
\* pushes its id to the consumers of each dependency, once per occurrence.
Register(id, dependencies) ==
    /\ IF Has(id)
       THEN /\ raised' = "duplicate"
            /\ UNCHANGED tasks
       ELSE IF \E i \in DOMAIN dependencies : ~Has(dependencies[i])
       THEN /\ raised' = "unknownDependency"
            /\ UNCHANGED tasks
       ELSE /\ raised' = "none"
            /\ tasks' = Append(
                   [i \in DOMAIN tasks |->
                       [tasks[i] EXCEPT !.consumers =
                           @ \o Repeat(id, Count(dependencies, tasks[i].id))]],
                   TaskInfo(id, dependencies))
    /\ UNCHANGED <<globalArgs, runVars>>

SetGlobalArgs(g) ==
    /\ globalArgs' = g
    /\ UNCHANGED <<tasks, raised, runVars>>

----------------------------------------------------------------------------
\* Task execution

\* What a call of task.fn has come to so far.  The value a task yields and the
\* cause it fails with are both written as the task's id.
NoOutcome == [kind |-> "pending"]

Outcome(task, failed) ==
    [kind |-> IF failed THEN "failure" ELSE "value", val |-> task.id]

\* executeTask without its catchError: a failure passed on as if it were data.
executeTaskNoCatch(task, out) ==
    <<task.id, [data |-> out.val]>>

\* executeTask that keeps an empty data next to the error of a failure (the
\* empty data written 0).
executeTaskBoth(task, out) ==
    <<task.id, IF out.kind = "failure" THEN [data |-> 0, error |-> out.val]
                                       ELSE [data |-> out.val]>>

\* executeTask: every value becomes { data }, every failure (thrown, rejected
\* or signalled by the stream) becomes { error }, paired with the task's id.
executeTask(task, out) ==
    <<task.id, IF out.kind = "failure" THEN [error |-> out.val]
                                       ELSE [data |-> out.val]>>

\* Launch without the try/catch around task.fn: a synchronous throw ends the
\* unit and never reaches the handle.
LaunchNoTry(task, args, g, ret) ==
    LET now == ret.shape \in {"value", "syncStream"}
        out == IF now THEN Outcome(task, ret.failed) ELSE NoOutcome
        thrown == ret.shape = "value" /\ ret.failed
    IN  [call |-> [args |-> args, globalArgs |-> g, shape |-> ret.shape,
                   outcome |-> out],
         promise |-> IF now /\ ~thrown
                     THEN Fulfilled(executeTask(task, out)) ELSE Pending,
         unit |-> IF now THEN "done" ELSE "running",
         finalized |-> IF ret.shape = "syncStream" THEN 1 ELSE 0]

\* Launch without the isObservable branch: a returned stream is wrapped with
\* of() like an immediate value, so the stream itself becomes the data (written
\* 0, which no task yields).
LaunchStreamRaw(task, args, g, ret) ==
    LET now == ret.shape \in {"value", "syncStream"}
        out == IF now THEN Outcome(task, ret.failed) ELSE NoOutcome
    IN  [call |-> [args |-> args, globalArgs |-> g, shape |-> ret.shape,
                   outcome |-> out],
         promise |-> IF ~now THEN Pending
                     ELSE IF ret.shape = "syncStream"
                     THEN Fulfilled(<<task.id, [data |-> 0]>>)
                     ELSE Fulfilled(executeTask(task, out)),
         unit |-> IF now THEN "done" ELSE "running",
         finalized |-> 0]

\* What calling task.fn and subscribing the unit's pipeline to executeTask's
\* stream leaves behind: the call, and for a result that is there at once the
\* resolved handle and the completed unit.
Launch(task, args, g, ret) ==
    LET now == ret.shape \in {"value", "syncStream"}
        out == IF now THEN Outcome(task, ret.failed) ELSE NoOutcome
    IN  [call |-> [args |-> args, globalArgs |-> g, shape |-> ret.shape,
                   outcome |-> out],
         promise |-> IF now THEN Fulfilled(executeTask(task, out)) ELSE Pending,
         unit |-> IF now THEN "done" ELSE "running",
         finalized |-> IF ret.shape = "syncStream" THEN 1 ELSE 0]

----------------------------------------------------------------------------
\* A resolution

\* The default of withLoadingState taken as true.
WithLoadingStateDefaultTrue(o) ==
    IF "withLoadingState" \in DOMAIN o THEN o.withLoadingState ELSE TRUE

\* const { withLoadingState = false } = options ?? {}
WithLoadingState(o) ==
    IF "withLoadingState" \in DOMAIN o THEN o.withLoadingState ELSE FALSE

\* The override taken with ?? instead of the 'in' test: an explicit undefined
\* falls back to the stored value.
EffectiveGlobalArgsNullish(o) ==
    IF "globalArgs" \in DOMAIN o /\ o.globalArgs # "undefined"
    THEN o.globalArgs ELSE globalArgs

\* An override that sticks: a call without one picks up the override of a
\* resolution that started before it.
EffectiveGlobalArgsSticky(o) ==
    IF "globalArgs" \in DOMAIN o THEN o.globalArgs
    ELSE IF \E r \in Runs : "globalArgs" \in DOMAIN options[r]
    THEN options[CHOOSE r \in Runs : "globalArgs" \in DOMAIN options[r]].globalArgs
    ELSE globalArgs

\* !!options && 'globalArgs' in options ? options.globalArgs : this.globalArgs
EffectiveGlobalArgs(o) ==
    IF "globalArgs" \in DOMAIN o THEN o.globalArgs ELSE globalArgs

\* The result of an empty registry with a failure flag set.
EmptyResultFlagged(g) == [globalArgs |-> g, tasks |-> EmptyMap, hasErrors |-> FALSE]

\* of({ globalArgs: effectiveGlobalArgs, tasks: {} })
EmptyResult(g) == [globalArgs |-> g, tasks |-> EmptyMap]

\* Every task started at once, whether it has producers or not.
RootsAll == Ids

\* No task started in the factory: the tasks without producers are started
\* from a callback as well, after the consumer has its first value.
RootsDeferred == {}

Roots == {t \in Ids : Get(t).producers = <<>>}

\* A reduce that keeps the successes only.
ReduceSuccesses(pairs) ==
    [k \in {e[1] : e \in {x \in pairs : "data" \in DOMAIN x[2]}} |->
        (CHOOSE e \in pairs : e[1] = k)[2]]

\* The reduce of resolver.ts:274 and :300: the [id, result] pairs as a mapping.
Reduce(pairs) ==
    [k \in {e[1] : e \in pairs} |-> (CHOOSE e \in pairs : e[1] = k)[2]]

\* forkJoin over the producers' promises: it emits once all have resolved.
IsFulfilled(r, t) == taskResults[r][t].state = "fulfilled"

\* Wave by wave: a task with producers starts only when, besides its own
\* producers, every task without producers has published.
ProducersReadyWave(r, task) ==
    /\ \A p \in Range(task.producers) : IsFulfilled(r, p)
    /\ \A q \in DOMAIN taskResults[r] : Get(q).producers = <<>> => IsFulfilled(r, q)

\* Handles that reject on an error: the forkJoin of a unit emits only when all
\* its producers have succeeded.
ProducersReadyStrict(r, task) ==
    \A p \in Range(task.producers) :
        IsFulfilled(r, p) /\ isSuccess(taskResults[r][p].value[2])

ProducersReady(r, task) ==
    \A p \in Range(task.producers) : IsFulfilled(r, p)

\* A bundle that leaves the failed producers out.
BundleSuccessOnly(r, task) ==
    ReduceSuccesses({taskResults[r][p].value :
                        p \in {q \in Range(task.producers) : IsFulfilled(r, q)}})

\* A bundle of every result published so far in the resolution, whether of a
\* declared producer or not.
BundleAll(r, task) ==
    Reduce({taskResults[r][p].value :
               p \in {q \in DOMAIN taskResults[r] : IsFulfilled(r, q)}})

\* The argument bundle a unit builds from its producers' promises.
Bundle(r, task) ==
    Reduce({taskResults[r][p].value :
               p \in {q \in Range(task.producers) : IsFulfilled(r, q)}})

\* What the consumer is sent before resultWithState is subscribed (concat).
Preamble(withLoadingState) ==
    IF withLoadingState THEN <<LoadingMarker>> ELSE <<>>

\* A final join that emits with the first handle that resolves.
SomeResolved(r) ==
    \E t \in DOMAIN taskResults[r] : IsFulfilled(r, t)

\* A final join over the handles of the tasks without producers only.
RootsResolved(r) ==
    \A t \in DOMAIN taskResults[r] : Get(t).producers = <<>> => IsFulfilled(r, t)

\* A final join that reads the registry when it is asked: it waits for a
\* handle of every task registered by then.
AllRegisteredResolved(r) ==
    \A t \in Ids : t \in DOMAIN taskResults[r] /\ IsFulfilled(r, t)

\* The final forkJoin over all handles of the run, mapped to the result.
AllResolved(r) ==
    \A t \in DOMAIN taskResults[r] : IsFulfilled(r, t)

ResolverResult(r) ==
    [globalArgs |-> effectiveGlobalArgs[r],
     tasks |-> Reduce({taskResults[r][t].value :
                          t \in {q \in DOMAIN taskResults[r] : IsFulfilled(r, q)}})]

\* takeUntil(destroy): a unit that still waits for its producers or for its
\* own result is completed and unsubscribed from its source.
Live(u) == u \in {"waiting", "running"}

\* Units without takeUntil(destroy).
StopUnitNever(u) == u

StopUnit(u) == IF Live(u) THEN "stopped" ELSE u

\* The stream a call returned is still subscribed.
StreamOpen(r, t) ==
    /\ unit[r][t] = "running"
    /\ calls[r][t][Len(calls[r][t])].shape = "stream"

\* The factory of defer, run for subscription r with the options o of the
\* resolve call: every task without producers is executed at once, and the
\* consumer is sent the loading marker if it asked for it.  A consumer that
\* leaves on that first value is gone before concat subscribes resultWithState.
DeferFactory(r, o, consumer, rets) ==
    /\ LET eff == EffectiveGlobalArgs(o)
           pre == Preamble(WithLoadingState(o))
           started == [t \in Ids |->
               IF t \in Roots
               THEN Launch(Get(t), EmptyMap, eff, rets[t])
               ELSE [promise |-> Pending, unit |-> "waiting", finalized |-> 0]]
       IN  /\ options' = [options EXCEPT ![r] = o]
           /\ effectiveGlobalArgs' = [effectiveGlobalArgs EXCEPT ![r] = eff]
           /\ IF Len(tasks) = 0
              THEN /\ emitted' = [emitted EXCEPT ![r] = <<EmptyResult(eff)>>]
                   /\ phase' = [phase EXCEPT ![r] = "completed"]
                   /\ UNCHANGED <<taskResults, unit, calls, finalized>>
              ELSE /\ emitted' = [emitted EXCEPT ![r] = pre]
                   /\ phase' = [phase EXCEPT ![r] =
                          IF pre # <<>> /\ consumer = "first"
                          THEN "detached" ELSE "running"]
                   /\ taskResults' = [taskResults EXCEPT ![r] =
                          [t \in Ids |-> started[t].promise]]
                   /\ unit' = [unit EXCEPT ![r] = [t \in Ids |-> started[t].unit]]
                   /\ calls' = [calls EXCEPT ![r] =
                          [t \in Ids |-> IF t \in Roots
                                         THEN <<started[t].call>> ELSE <<>>]]
                   /\ finalized' = [finalized EXCEPT ![r] =
                          [t \in Ids |-> started[t].finalized]]
    /\ UNCHANGED <<tasks, raised, globalArgs, destroy>>

\* resolve(o) called and the stream it returned subscribed to, in one step.
Subscribe(r, o, consumer, rets) ==
    /\ phase[r] = "idle"
    /\ DeferFactory(r, o, consumer, rets)

\* resolve() that runs at the call: the handles are created and the tasks
\* without producers are executed before anything is subscribed.
ResolveEager(o) ==
    /\ \A r \in Runs : phase[r] = "idle"
    /\ phase' = [r \in Runs |-> "called"]
    /\ options' = [r \in Runs |-> o]
    /\ taskResults' = [taskResults EXCEPT ![1] = [t \in Ids |-> Pending]]
    /\ calls' = [calls EXCEPT ![1] =
           [t \in Ids |->
               IF t \in Roots
               THEN <<Launch(Get(t), EmptyMap, EffectiveGlobalArgs(o),
                             [shape |-> "promise"]).call>>
               ELSE <<>>]]
    /\ UNCHANGED <<tasks, raised, globalArgs, effectiveGlobalArgs, unit, finalized,
                   destroy, emitted>>

\* resolve(o) called once and nothing subscribed yet: the call returns the
\* stream defer built around the options.  Every run of the behaviour is a
\* subscription to that one stream.
Resolve(o) ==
    /\ \A r \in Runs : phase[r] = "idle"
    /\ phase' = [r \in Runs |-> "called"]
    /\ options' = [r \in Runs |-> o]
    /\ UNCHANGED <<tasks, raised, globalArgs, effectiveGlobalArgs, taskResults, unit,
                   calls, finalized, destroy, emitted>>

\* A subscription to the stream the resolve call returned: the factory runs
\* with the options of the call.
Observe(r, consumer, rets) ==
    /\ phase[r] = "called"
    /\ DeferFactory(r, options[r], consumer, rets)

\* Invoke reading this.globalArgs when the task starts instead of the value
\* captured when the resolution started.
InvokeStored(r, t, ret) ==
    /\ t \in DOMAIN unit[r]
    /\ unit[r][t] = "waiting"
    /\ ProducersReady(r, Get(t))
    /\ LET l == Launch(Get(t), Bundle(r, Get(t)), globalArgs, ret)
       IN  /\ calls' = [calls EXCEPT ![r][t] = Append(@, l.call)]
           /\ taskResults' = [taskResults EXCEPT ![r][t] = l.promise]
           /\ unit' = [unit EXCEPT ![r][t] = l.unit]
           /\ finalized' = [finalized EXCEPT ![r][t] = @ + l.finalized]
    /\ UNCHANGED <<tasks, raised, globalArgs, phase, options, effectiveGlobalArgs,
                   destroy, emitted>>

\* The forkJoin of a unit's producers emits: the bundle is built and task.fn
\* is executed (switchMap); a result that is there at once resolves the handle.
Invoke(r, t, ret) ==
    /\ t \in DOMAIN unit[r]
    /\ unit[r][t] = "waiting"
    /\ ProducersReady(r, Get(t))
    /\ LET l == Launch(Get(t), Bundle(r, Get(t)), effectiveGlobalArgs[r], ret)
       IN  /\ calls' = [calls EXCEPT ![r][t] = Append(@, l.call)]
           /\ taskResults' = [taskResults EXCEPT ![r][t] = l.promise]
           /\ unit' = [unit EXCEPT ![r][t] = l.unit]
           /\ finalized' = [finalized EXCEPT ![r][t] = @ + l.finalized]
    /\ UNCHANGED <<tasks, raised, globalArgs, phase, options, effectiveGlobalArgs,
                   destroy, emitted>>

\* The promise task.fn returned settles, or the stream it returned emits its
\* first value or fails: tap resolves the handle, take(1) ends the unit and
\* tears the stream down.
Settle(r, t, failed) ==
    /\ t \in DOMAIN unit[r]
    /\ unit[r][t] = "running"
    /\ LET n == Len(calls[r][t])
           out == Outcome(Get(t), failed)
       IN  /\ calls' = [calls EXCEPT ![r][t][n].outcome = out]
           /\ taskResults' = [taskResults EXCEPT ![r][t] =
                  Fulfilled(executeTask(Get(t), out))]
    /\ unit' = [unit EXCEPT ![r][t] = "done"]
    /\ finalized' = [finalized EXCEPT ![r][t] =
           IF StreamOpen(r, t) THEN @ + 1 ELSE @]
    /\ UNCHANGED <<tasks, raised, globalArgs, phase, options, effectiveGlobalArgs,
                   destroy, emitted>>

\* The promise task.fn returned settles after its unit was stopped: a promise
\* cannot be cancelled, but the unit's subscriber is closed and drops the value.
LateSettle(r, t, failed) ==
    /\ t \in DOMAIN unit[r]
    /\ unit[r][t] = "stopped"
    /\ calls[r][t] # <<>>
    /\ LET n == Len(calls[r][t])
       IN  /\ calls[r][t][n].shape = "promise"
           /\ calls[r][t][n].outcome = NoOutcome
           /\ calls' = [calls EXCEPT ![r][t][n].outcome = Outcome(Get(t), failed)]
    /\ UNCHANGED <<tasks, raised, globalArgs, phase, options, effectiveGlobalArgs,
                   taskResults, unit, finalized, destroy, emitted>>

\* The stream task.fn returned completes without a value: the unit ends and
\* its handle stays unresolved.
CompleteEmpty(r, t) ==
    /\ t \in DOMAIN unit[r]
    /\ StreamOpen(r, t)
    /\ calls' = [calls EXCEPT ![r][t][Len(calls[r][t])].outcome = [kind |-> "empty"]]
    /\ unit' = [unit EXCEPT ![r][t] = "done"]
    /\ finalized' = [finalized EXCEPT ![r][t] = @ + 1]
    /\ UNCHANGED <<tasks, raised, globalArgs, phase, options, effectiveGlobalArgs,
                   taskResults, destroy, emitted>>

\* Unsubscribe with one destroy subject kept on the instance: leaving one
\* resolution stops the live units of every resolution.
UnsubscribeShared(r) ==
    /\ phase[r] = "running"
    /\ phase' = [phase EXCEPT ![r] = "cancelled"]
    /\ destroy' = [q \in Runs |-> TRUE]
    /\ unit' = [q \in Runs |-> [t \in DOMAIN unit[q] |-> StopUnit(unit[q][t])]]
    /\ finalized' = [q \in Runs |->
           [t \in DOMAIN finalized[q] |->
               IF StreamOpen(q, t) /\ StopUnit(unit[q][t]) = "stopped"
               THEN finalized[q][t] + 1 ELSE finalized[q][t]]]
    /\ UNCHANGED <<tasks, raised, globalArgs, options, effectiveGlobalArgs,
                   taskResults, calls, emitted>>

\* A later emission that reaches the handle: no take(1), and a handle that
\* takes the last result supplied (the later value and cause written 0).
EmitAgainResupply(r, t, failed) ==
    /\ t \in DOMAIN unit[r]
    /\ unit[r][t] = "done"
    /\ calls[r][t] # <<>>
    /\ LET n == Len(calls[r][t])
           out == calls[r][t][n].outcome
       IN  /\ calls[r][t][n].shape \in {"stream", "syncStream"}
           /\ out.kind = "value"
           /\ "later" \notin DOMAIN out
           /\ calls' = [calls EXCEPT ![r][t][n].outcome =
                  [kind |-> out.kind, val |-> out.val,
                   later |-> IF failed THEN "failure" ELSE "value"]]
           /\ taskResults' = [taskResults EXCEPT ![r][t] =
                  Fulfilled(executeTask(Get(t),
                      [kind |-> IF failed THEN "failure" ELSE "value", val |-> 0]))]
    /\ UNCHANGED <<tasks, raised, globalArgs, phase, options, effectiveGlobalArgs,
                   unit, finalized, destroy, emitted>>

\* The stream task.fn returned has more to say after its first value, another
\* value or an error: take(1) has completed the unit and unsubscribed it from
\* the stream, and the handle's promise is resolved already, so only the call
\* log records it.
EmitAgain(r, t, failed) ==
    /\ t \in DOMAIN unit[r]
    /\ unit[r][t] = "done"
    /\ calls[r][t] # <<>>
    /\ LET n == Len(calls[r][t])
           out == calls[r][t][n].outcome
       IN  /\ calls[r][t][n].shape \in {"stream", "syncStream"}
           /\ out.kind = "value"
           /\ "later" \notin DOMAIN out
           /\ calls' = [calls EXCEPT ![r][t][n].outcome =
                  [kind |-> out.kind, val |-> out.val,
                   later |-> IF failed THEN "failure" ELSE "value"]]
    /\ UNCHANGED <<tasks, raised, globalArgs, phase, options, effectiveGlobalArgs,
                   taskResults, unit, finalized, destroy, emitted>>

\* A handle that takes whatever it is supplied last.
resolveOverwrite(promise, value) == Fulfilled(value)

\* The resolve function of a handle (withResolvers hands out the resolve of
\* new Promise): it settles a pending promise and does nothing to a settled one.
resolve(promise, value) ==
    IF promise.state = "pending" THEN Fulfilled(value) ELSE promise

\* The resolve function of a supplied handle is called once more, with a
\* result other than the one it holds (an error for data, data for an error,
\* the value written 0).  The call log records the attempt.
ResolveAgain(r, t) ==
    /\ t \in DOMAIN taskResults[r]
    /\ IsFulfilled(r, t)
    /\ calls[r][t] # <<>>
    /\ LET n == Len(calls[r][t])
           out == calls[r][t][n].outcome
           other == [kind |-> IF isError(taskResults[r][t].value[2])
                              THEN "value" ELSE "failure",
                     val |-> 0]
       IN  /\ "again" \notin DOMAIN out
           /\ calls' = [calls EXCEPT ![r][t][n].outcome =
                  [kind |-> out.kind, val |-> out.val, again |-> other.kind]]
           /\ taskResults' = [taskResults EXCEPT ![r][t] =
                  resolve(@, executeTask(Get(t), other))]
    /\ UNCHANGED <<tasks, raised, globalArgs, phase, options, effectiveGlobalArgs,
                   unit, finalized, destroy, emitted>>

\* The consumer unsubscribes from resultWithState before its result: finalize
\* fires destroy, and takeUntil(destroy) ends every unit that is still live,
\* which tears down the streams those units are subscribed to.
Unsubscribe(r) ==
    /\ phase[r] = "running"
    /\ phase' = [phase EXCEPT ![r] = "cancelled"]
    /\ destroy' = [destroy EXCEPT ![r] = TRUE]
    /\ unit' = [unit EXCEPT ![r] = [t \in DOMAIN @ |-> StopUnit(@[t])]]
    /\ finalized' = [finalized EXCEPT ![r] =
           [t \in DOMAIN @ |->
               IF StreamOpen(r, t) /\ StopUnit(unit[r][t]) = "stopped"
               THEN @[t] + 1 ELSE @[t]]]
    /\ UNCHANGED <<tasks, raised, globalArgs, options, effectiveGlobalArgs,
                   taskResults, calls, emitted>>

\* The final forkJoin emits: the consumer is sent the result, the stream
\* completes and finalize fires destroy.
Terminal(r) ==
    /\ phase[r] = "running"
    /\ AllResolved(r)
    /\ emitted' = [emitted EXCEPT ![r] = Append(@, ResolverResult(r))]
    /\ phase' = [phase EXCEPT ![r] = "completed"]
    /\ destroy' = [destroy EXCEPT ![r] = TRUE]
    /\ UNCHANGED <<tasks, raised, globalArgs, options, effectiveGlobalArgs,
                   taskResults, unit, calls, finalized>>

----------------------------------------------------------------------------
\* The specification

\* new Resolver(globalArgs?): an empty registry, nothing subscribed.
Init ==
    /\ tasks = <<>>
    /\ raised = "none"
    /\ globalArgs = "undefined"
    /\ phase = [r \in 1..MaxRuns |-> "idle"]
    /\ options = [r \in 1..MaxRuns |-> NoOptions]
    /\ effectiveGlobalArgs = [r \in 1..MaxRuns |-> "undefined"]
    /\ taskResults = [r \in 1..MaxRuns |-> EmptyMap]
    /\ unit = [r \in 1..MaxRuns |-> EmptyMap]
    /\ calls = [r \in 1..MaxRuns |-> EmptyMap]
    /\ finalized = [r \in 1..MaxRuns |-> EmptyMap]
    /\ destroy = [r \in 1..MaxRuns |-> FALSE]
    /\ emitted = [r \in 1..MaxRuns |-> <<>>]

\* Ids are opaque strings: a call names a registered id or the next unused one.
CallIds == {id \in TaskIds : id <= Len(tasks) + 1}

\* The dependency lists a register call is tried with: any list for a new id,
\* the short ones for an id that is registered already (the call fails first).
CallDeps(id) == SeqsUpTo(TaskIds, IF Has(id) THEN 1 ELSE MaxDeps)

Next ==
    \/ \E id \in CallIds : \E deps \in CallDeps(id) : Register(id, deps)
    \/ \E r \in Runs, o \in LoadingOptions, c \in Consumers, rets \in [Roots -> Returns] :
          Subscribe(r, o, c, rets)
    \/ \E r \in Runs, t \in TaskIds, ret \in Returns : Invoke(r, t, ret)
    \/ \E r \in Runs, t \in TaskIds, failed \in BOOLEAN : Settle(r, t, failed)
    \/ \E r \in Runs, t \in TaskIds, failed \in BOOLEAN : LateSettle(r, t, failed)
    \/ \E r \in Runs, t \in TaskIds : CompleteEmpty(r, t)
    \/ \E r \in Runs : Unsubscribe(r)
    \/ \E r \in Runs : Terminal(r)

Spec == Init /\ [][Next]_vars

\* new Resolver(globalArgs) with either stored value, and two subscriptions.
InitArgs ==
    /\ tasks = <<>>
    /\ raised = "none"
    /\ globalArgs \in GlobalArgsValues
    /\ phase = [r \in 1..MaxArgRuns |-> "idle"]
    /\ options = [r \in 1..MaxArgRuns |-> NoOptions]
    /\ effectiveGlobalArgs = [r \in 1..MaxArgRuns |-> "undefined"]
    /\ taskResults = [r \in 1..MaxArgRuns |-> EmptyMap]
    /\ unit = [r \in 1..MaxArgRuns |-> EmptyMap]
    /\ calls = [r \in 1..MaxArgRuns |-> EmptyMap]
    /\ finalized = [r \in 1..MaxArgRuns |-> EmptyMap]
    /\ destroy = [r \in 1..MaxArgRuns |-> FALSE]
    /\ emitted = [r \in 1..MaxArgRuns |-> <<>>]

\* The register calls of the arguments specification: a new id with at most
\* one dependency, which is registered.
ArgCallIds == (CallIds \cap (1..MaxArgTasks)) \ Ids

ArgCallDeps == SeqsUpTo(Ids, 1)

\* The next subscription is made on the first run not yet used.
NextRun == {r \in Runs : phase[r] = "idle" /\ \A q \in Runs : q < r => phase[q] # "idle"}

\* The engine used with up to two tasks, the setter, per-call overrides and
\* two resolutions that may be in flight together.
NextArgs ==
    \/ \E id \in ArgCallIds : \E deps \in ArgCallDeps : Register(id, deps)
    \/ \E g \in GlobalArgsValues : SetGlobalArgs(g)
    \/ \E r \in NextRun, o \in ArgsOptions, rets \in [Roots -> ArgReturns] :
          Subscribe(r, o, "all", rets)
    \/ \E r \in Runs, t \in TaskIds, ret \in ArgReturns : Invoke(r, t, ret)
    \/ \E r \in Runs, t \in TaskIds, failed \in BOOLEAN : Settle(r, t, failed)
    \/ \E r \in Runs, t \in TaskIds, failed \in BOOLEAN : LateSettle(r, t, failed)
    \/ \E r \in Runs : Unsubscribe(r)
    \/ \E r \in Runs : Terminal(r)

SpecArgs == InitArgs /\ [][NextArgs]_vars

\* The register calls of an instance nothing is subscribed to: an id that is
\* registered or the next unused one, with any list of dependencies.
RegIds == 1..MaxRegTasks

RegCallIds == {id \in RegIds : id <= Len(tasks) + 1}

RegDeps == SeqsUpTo(RegIds, MaxDeps)

NextRegistry ==
    \E id \in RegCallIds : \E deps \in RegDeps : Register(id, deps)

SpecRegistry == Init /\ [][NextRegistry]_vars

\* The register calls that succeed: the next unused id with dependencies that
\* are registered.
NewIds == CallIds \ Ids

KnownDeps == SeqsUpTo(Ids, MaxDeps)

\* The engine with task functions that return streams, which may go on after
\* their first value, and a consumer that stays.
NextStreams ==
    \/ \E id \in NewIds : \E deps \in KnownDeps : Register(id, deps)
    \/ \E r \in Runs, rets \in [Roots -> StreamReturns] :
          Subscribe(r, NoOptions, "all", rets)
    \/ \E r \in Runs, t \in TaskIds, ret \in StreamReturns : Invoke(r, t, ret)
    \/ \E r \in Runs, t \in TaskIds, failed \in BOOLEAN : Settle(r, t, failed)
    \/ \E r \in Runs, t \in TaskIds, failed \in BOOLEAN : EmitAgain(r, t, failed)
    \/ \E r \in Runs : Terminal(r)

SpecStreams == Init /\ [][NextStreams]_vars

\* The engine with a consumer that keeps observing and task functions whose
\* value, promise or stream comes to a value or a failure.
NextLive ==
    \/ \E id \in NewIds : \E deps \in KnownDeps : Register(id, deps)
    \/ \E r \in Runs, o \in LoadingOptions, rets \in [Roots -> Returns] :
          Subscribe(r, o, "all", rets)
    \/ \E r \in Runs, t \in TaskIds, ret \in Returns : Invoke(r, t, ret)
    \/ \E r \in Runs, t \in TaskIds, failed \in BOOLEAN : Settle(r, t, failed)
    \/ \E r \in Runs : Terminal(r)

\* The callbacks of resolved promises run (the forkJoin of a unit, the final
\* forkJoin), and what a task function returned settles.
Fairness ==
    /\ \A r \in 1..MaxRuns : \A t \in TaskIds :
          /\ WF_vars(\E ret \in Returns : Invoke(r, t, ret))
          /\ WF_vars(\E failed \in BOOLEAN : Settle(r, t, failed))
    /\ \A r \in 1..MaxRuns : WF_vars(Terminal(r))

SpecLive == Init /\ [][NextLive]_vars /\ Fairness

\* The engine with a consumer that stays, and the resolve function of supplied
\* handles called a second time at any moment.
NextHandles ==
    \/ \E id \in NewIds : \E deps \in KnownDeps : Register(id, deps)
    \/ \E r \in Runs, rets \in [Roots -> Returns] :
          Subscribe(r, NoOptions, "all", rets)
    \/ \E r \in Runs, t \in TaskIds, ret \in Returns : Invoke(r, t, ret)
    \/ \E r \in Runs, t \in TaskIds, failed \in BOOLEAN : Settle(r, t, failed)
    \/ \E r \in Runs, t \in TaskIds : ResolveAgain(r, t)
    \/ \E r \in Runs : Terminal(r)

SpecHandles == Init /\ [][NextHandles]_vars

\* The next subscription to the stream of the one resolve call.
NextObserver ==
    {r \in Runs : phase[r] = "called" /\ \A q \in Runs : q < r => phase[q] # "called"}

\* One resolve call on an engine with up to two tasks, its stream subscribed
\* to up to twice, with register calls before the call, between the call and
\* a subscription, and afterwards.
NextLazy ==
    \/ \E id \in ArgCallIds : \E deps \in ArgCallDeps : Register(id, deps)
    \/ \E o \in LoadingOptions : Resolve(o)
    \/ \E r \in NextObserver, c \in Consumers, rets \in [Roots -> ArgReturns] :
          Observe(r, c, rets)
    \/ \E r \in Runs, t \in TaskIds, ret \in ArgReturns : Invoke(r, t, ret)
    \/ \E r \in Runs, t \in TaskIds, failed \in BOOLEAN : Settle(r, t, failed)
    \/ \E r \in Runs : Unsubscribe(r)
    \/ \E r \in Runs : Terminal(r)

SpecLazy == InitArgs /\ [][NextLazy]_vars

TypeOK ==
    /\ \A i \in DOMAIN tasks :
          /\ tasks[i].id \in TaskIds
          /\ Range(tasks[i].producers) \subseteq Ids
          /\ Range(tasks[i].consumers) \subseteq Ids
    /\ raised \in {"none", "duplicate", "unknownDependency"}
    /\ globalArgs \in GlobalArgsValues
    /\ \A r \in Runs :
          /\ phase[r] \in {"idle", "called", "running", "detached", "cancelled",
                          "completed"}
          /\ destroy[r] \in BOOLEAN
          /\ DOMAIN taskResults[r] \subseteq Ids
          /\ DOMAIN unit[r] = DOMAIN taskResults[r]
          /\ DOMAIN calls[r] = DOMAIN taskResults[r]
          /\ DOMAIN finalized[r] = DOMAIN taskResults[r]
          /\ \A t \in DOMAIN unit[r] :
                /\ unit[r][t] \in {"waiting", "running", "done", "stopped"}
                /\ taskResults[r][t].state \in {"pending", "fulfilled"}
                /\ finalized[r][t] \in Nat

----------------------------------------------------------------------------
\* Helpers of the properties

LastCall(r, t) == calls[r][t][Len(calls[r][t])]

Invoked(r, t) == calls[r][t] # <<>>

\* The result a call's own outcome stands for.
OwnResult(r, t) ==
    LET out == LastCall(r, t).outcome
    IN  IF out.kind = "failure" THEN [error |-> out.val] ELSE [data |-> out.val]

Came(r, t) == Invoked(r, t) /\ LastCall(r, t).outcome.kind \in {"value", "failure"}

Published(r, t) == taskResults[r][t].value[2]

\* The tasks t depends on, directly or through its producers.
RECURSIVE Ancestors(_)
Ancestors(t) ==
    LET P == Range(Get(t).producers)
    IN  P \cup UNION {Ancestors(p) : p \in P}

LastEmitted(r) == emitted[r][Len(emitted[r])]

IsResult(v) == "tasks" \in DOMAIN v

Started(r) == phase[r] # "idle" /\ DOMAIN unit[r] # {}

RequestedLoading(r) ==
    "withLoadingState" \in DOMAIN options[r] /\ options[r].withLoadingState = TRUE

----------------------------------------------------------------------------
\* Properties

\* C1: in every resolution a task that has been invoked has all of its
\* declared producers published (success or error): no interleaving starts a
\* task while one of its producers is still unpublished.
C1_InvokedAfterProducers ==
    \A r \in Runs : \A t \in DOMAIN calls[r] :
        Invoked(r, t) =>
            \A p \in Range(Get(t).producers) : taskResults[r][p].state = "fulfilled"

\* A task with two different producers, one of which published through a
\* promise, has been invoked.
C1_Witness ==
    \E r \in Runs : \E t \in DOMAIN calls[r] :
        /\ Invoked(r, t)
        /\ Len(Get(t).producers) = 2
        /\ Get(t).producers[1] # Get(t).producers[2]
        /\ \E p \in Range(Get(t).producers) : LastCall(r, p).shape = "promise"

C3_OutcomeBecomesResult ==
    \A r \in Runs : \A t \in DOMAIN calls[r] : \A i \in DOMAIN calls[r][t] :
        LET out == calls[r][t][i].outcome
        IN  /\ (out.kind = "failure" /\ unit[r][t] = "done") =>
                  taskResults[r][t] = Fulfilled(<<t, [error |-> out.val]>>)
            /\ (out.kind = "value" /\ unit[r][t] = "done") =>
                  taskResults[r][t] = Fulfilled(<<t, [data |-> out.val]>>)

\* One resolution in which a synchronous throw, a rejected promise and a
\* failed stream have each become an error result.
C3_Witness ==
    \E r \in Runs : \E a, b, c \in DOMAIN calls[r] :
        /\ \A t \in {a, b, c} :
              /\ Invoked(r, t)
              /\ LastCall(r, t).outcome.kind = "failure"
              /\ taskResults[r][t] = Fulfilled(<<t, [error |-> t]>>)
        /\ LastCall(r, a).shape = "value"
        /\ LastCall(r, b).shape = "promise"
        /\ LastCall(r, c).shape = "stream"

\* C4: a task failure does not fail or block the resolution.  A unit that
\* ended with a value or a failure has supplied its handle, so once every unit
\* has ended that way the final result can be delivered; and where a task
\* failed, every task that does not depend on it has the result of its own
\* outcome.
C4_FailureIsolated ==
    \A r \in Runs :
        /\ \A t \in DOMAIN unit[r] :
              (unit[r][t] = "done" /\ Came(r, t)) => taskResults[r][t].state = "fulfilled"
        /\ (phase[r] = "running" /\ \A t \in DOMAIN unit[r] : unit[r][t] = "done" /\ Came(r, t))
              => \A t \in DOMAIN unit[r] : taskResults[r][t].state = "fulfilled"
        /\ (phase[r] = "completed" /\ DOMAIN unit[r] # {}) =>
              /\ IsResult(LastEmitted(r))
              /\ \A x \in DOMAIN unit[r] :
                    isError(LastEmitted(r).tasks[x]) =>
                        \A t \in DOMAIN unit[r] :
                            x \notin Ancestors(t) \cup {t} =>
                                LastEmitted(r).tasks[t] = OwnResult(r, t)

\* A delivered result with a failed task, a task that depends on it and a task
\* that does not and has succeeded.
C4_Witness ==
    \E r \in Runs :
        /\ phase[r] = "completed"
        /\ \E x, t, d \in DOMAIN unit[r] :
              /\ isError(LastEmitted(r).tasks[x])
              /\ LastCall(r, x).shape = "value"
              /\ x \notin Ancestors(t) \cup {t}
              /\ isSuccess(LastEmitted(r).tasks[t])
              /\ x \in Ancestors(d)

\* C5: a dependent is invoked with a bundle that holds, under each declared
\* producer's id, the result that producer published, errors included and
\* unchanged; a delivered resolution has invoked every dependent; and a
\* dependent that yields a value has a success result whatever its producers
\* published.
C5_DependentGetsErrors ==
    \A r \in Runs : \A t \in DOMAIN calls[r] :
        /\ \A i \in DOMAIN calls[r][t] :
              LET c == calls[r][t][i]
              IN  /\ DOMAIN c.args = Range(Get(t).producers)
                  /\ \A p \in DOMAIN c.args :
                        /\ taskResults[r][p].state = "fulfilled"
                        /\ c.args[p] = Published(r, p)
                  /\ (c.outcome.kind = "value" /\ unit[r][t] = "done") =>
                        /\ taskResults[r][t].state = "fulfilled"
                        /\ isSuccess(Published(r, t))
        /\ phase[r] = "completed" => Invoked(r, t)

\* A dependent was invoked with a failed producer's error in its bundle and
\* has a success result of its own.
C5_Witness ==
    \E r \in Runs : \E t \in DOMAIN calls[r] :
        /\ Invoked(r, t)
        /\ \E p \in DOMAIN LastCall(r, t).args :
              LastCall(r, t).args[p] = [error |-> p]
        /\ taskResults[r][t].state = "fulfilled"
        /\ isSuccess(Published(r, t))

\* C6: the task mapping of the delivered result has one entry for every task
\* id registered when the resolution started and no other key, each entry
\* being the result that task published in this resolution.
C6_ResultMapping ==
    \A r \in Runs :
        phase[r] = "completed" =>
            /\ IsResult(LastEmitted(r))
            /\ DOMAIN LastEmitted(r).tasks = DOMAIN unit[r]
            /\ \A t \in DOMAIN unit[r] :
                  /\ taskResults[r][t].state = "fulfilled"
                  /\ LastEmitted(r).tasks[t] = Published(r, t)
                  /\ LastEmitted(r).tasks[t] = OwnResult(r, t)

\* A delivered result over three tasks, one of them failed.
C6_Witness ==
    \E r \in Runs :
        /\ phase[r] = "completed"
        /\ Cardinality(DOMAIN LastEmitted(r).tasks) = 3
        /\ \E t \in DOMAIN unit[r] : isError(LastEmitted(r).tasks[t])

\* C7: the delivered result carries hasErrors = true exactly when one of its
\* task results is an error, and no hasErrors otherwise.
C7_HasErrorsFlag ==
    \A r \in Runs :
        (phase[r] = "completed" /\ IsResult(LastEmitted(r))) =>
            LET res == LastEmitted(r)
            IN  ("hasErrors" \in DOMAIN res /\ res.hasErrors = TRUE)
                    <=> (\E t \in DOMAIN res.tasks : isError(res.tasks[t]))

\* C8: once the consumer has left before the result, every stream a task
\* function returned has been torn down exactly once, and no result has been
\* delivered.
C8_UnsubscribeCleansUp ==
    \A r \in Runs :
        phase[r] \in {"cancelled", "detached"} =>
            /\ \A t \in DOMAIN unit[r] :
                  (Invoked(r, t) /\ LastCall(r, t).shape \in {"stream", "syncStream"})
                      => finalized[r][t] = 1
            /\ \A i \in DOMAIN emitted[r] : ~IsResult(emitted[r][i])

\* C9: once the destroy signal of a resolution has fired, none of its handles
\* is supplied and none of its task functions is invoked any more.
C9_QuietAfterCancel ==
    [][\A r \in Runs :
          destroy[r] => /\ taskResults'[r] = taskResults[r]
                        /\ \A t \in DOMAIN calls[r] :
                              Len(calls'[r][t]) = Len(calls[r][t])]_vars

\* After a cancellation: a unit stopped while it waited although all its
\* producers had published, and a promise that settled after its unit was
\* stopped, its handle still unresolved.
C9_Witness ==
    \E r \in Runs :
        /\ destroy[r] /\ phase[r] = "cancelled"
        /\ \E t \in DOMAIN unit[r] :
              /\ unit[r][t] = "stopped" /\ ~Invoked(r, t)
              /\ Get(t).producers # <<>>
              /\ \A p \in Range(Get(t).producers) : taskResults[r][p].state = "fulfilled"
        /\ \E t \in DOMAIN unit[r] :
              /\ unit[r][t] = "stopped" /\ Came(r, t)
              /\ taskResults[r][t].state = "pending"

\* C10: with at least one task registered, a resolution asked for the loading
\* state sends the loading marker first and once, the only value isLoading
\* holds for, and the result after it; a resolution asked with false or with
\* nothing sends the result only and never a loading marker.
C10_LoadingMarker ==
    \A r \in Runs :
        Started(r) =>
            IF RequestedLoading(r)
            THEN /\ Len(emitted[r]) \in {1, 2}
                 /\ emitted[r][1] = LoadingMarker
                 /\ isLoading(emitted[r][1])
                 /\ \A i \in DOMAIN emitted[r] : i > 1 => ~isLoading(emitted[r][i])
                 /\ phase[r] = "completed" <=> Len(emitted[r]) = 2
            ELSE /\ Len(emitted[r]) \in {0, 1}
                 /\ \A i \in DOMAIN emitted[r] : ~isLoading(emitted[r][i])
                 /\ phase[r] = "completed" <=> Len(emitted[r]) = 1

\* A resolution asked for the loading state has delivered the marker and then
\* its result.
C10_Witness ==
    \E r \in Runs :
        /\ RequestedLoading(r)
        /\ Started(r)
        /\ phase[r] = "completed"
        /\ Len(emitted[r]) = 2
        /\ isLoading(emitted[r][1])
        /\ IsResult(emitted[r][2])

----------------------------------------------------------------------------
\* Helpers of the properties on arguments, registration and concurrent runs

\* The ceiling README.md documents for the number of resolution iterations.
RESOLVER_MAX_ITERATIONS == 100

HasOverride(r) == "globalArgs" \in DOMAIN options[r]

\* The subscription of run r is made in this step.
Starts(r) == phase[r] = "idle" /\ phase'[r] # "idle"

\* This step is a register call that is not a repetition of the last failure.
RegisterStep == tasks' # tasks \/ raised' # raised

Max(S) == CHOOSE x \in S : \A y \in S : y <= x

\* The length of the longest chain of producers that ends in t: the number of
\* the iteration in which t can be resolved.
RECURSIVE Depth(_)
Depth(t) ==
    IF Get(t).producers = <<>> THEN 1
    ELSE 1 + Max({Depth(p) : p \in Range(Get(t).producers)})

Ceiling(r) ==
    IF "maxIterations" \in DOMAIN options[r] THEN options[r].maxIterations
    ELSE RESOLVER_MAX_ITERATIONS

\* Everything one resolution owns.
RunState(r) ==
    <<phase[r], options[r], effectiveGlobalArgs[r], taskResults[r], unit[r],
      calls[r], finalized[r], destroy[r], emitted[r]>>

\* What run r holds is what it produces by itself: every supplied handle holds
\* the outcome of the run's own call, every bundle the run's own results.
RunAlone(r) ==
    /\ \A t \in DOMAIN taskResults[r] :
          taskResults[r][t].state = "fulfilled" =>
              /\ Came(r, t)
              /\ Published(r, t) = OwnResult(r, t)
    /\ \A t \in DOMAIN calls[r] : \A i \in DOMAIN calls[r][t] :
          /\ calls[r][t][i].globalArgs = effectiveGlobalArgs[r]
          /\ \A p \in DOMAIN calls[r][t][i].args :
                /\ taskResults[r][p].state = "fulfilled"
                /\ calls[r][t][i].args[p] = Published(r, p)

\* Every call of run r was given the captured value, and so was its result.
UsesCaptured(r) ==
    /\ \A t \in DOMAIN calls[r] : \A i \in DOMAIN calls[r][t] :
          calls[r][t][i].globalArgs = effectiveGlobalArgs[r]
    /\ \A i \in DOMAIN emitted[r] :
          IsResult(emitted[r][i]) => emitted[r][i].globalArgs = effectiveGlobalArgs[r]

----------------------------------------------------------------------------
\* Properties on arguments, registration and concurrent runs

\* C11: a resolution started on an empty registry delivers one result with an
\* empty task mapping, the effective global arguments and no failure flag,
\* completes, and invokes nothing, whatever is registered afterwards.
C11_EmptyRegistry ==
    \A r \in Runs :
        (phase[r] # "idle" /\ DOMAIN unit[r] = {}) =>
            /\ phase[r] = "completed"
            /\ Len(emitted[r]) = 1
            /\ DOMAIN emitted[r][1] = {"globalArgs", "tasks"}
            /\ DOMAIN emitted[r][1].tasks = {}
            /\ emitted[r][1].globalArgs = effectiveGlobalArgs[r]
            /\ HasOverride(r) => emitted[r][1].globalArgs = options[r].globalArgs
            /\ DOMAIN calls[r] = {}
            /\ DOMAIN taskResults[r] = {}

\* A resolution of the empty registry with an override has completed, and a
\* task registered after it has not been invoked by it.
C11_Witness ==
    \E r \in Runs :
        /\ phase[r] = "completed"
        /\ DOMAIN unit[r] = {}
        /\ options[r] = [globalArgs |-> "Temp"]
        /\ emitted[r] = <<[globalArgs |-> "Temp", tasks |-> EmptyMap]>>
        /\ globalArgs = "Hello"
        /\ Len(tasks) > 0

\* C12: a resolution captures, when it starts, the override if its options
\* hold a globalArgs entry (an explicit undefined included) and the stored
\* value otherwise; every task function is given that value and the result
\* reports it.
C12_EffectiveGlobalArgs ==
    [][\A r \in Runs :
          /\ Starts(r) =>
                effectiveGlobalArgs'[r] =
                    IF "globalArgs" \in DOMAIN options'[r]
                    THEN options'[r].globalArgs ELSE globalArgs
          /\ UsesCaptured(r)']_vars

\* With "Hello" stored, a resolution with an explicit override of undefined
\* has given undefined to a task function and reports undefined.
C12_Witness ==
    \E r \in Runs :
        /\ globalArgs = "Hello"
        /\ options[r] = [globalArgs |-> "undefined"]
        /\ phase[r] = "completed"
        /\ \E t \in DOMAIN calls[r] :
              Invoked(r, t) /\ LastCall(r, t).globalArgs = "undefined"
        /\ IsResult(LastEmitted(r))
        /\ LastEmitted(r).globalArgs = "undefined"

\* C13: starting a resolution, with or without an override, leaves the stored
\* global arguments as they are; they change only in a setGlobalArgs call; and
\* a resolution without an override captures the stored value, uses it and
\* reports it.
C13_OverrideNotStored ==
    [][/\ \A r \in Runs :
             Starts(r) =>
                 /\ globalArgs' = globalArgs
                 /\ ~HasOverride(r)' => effectiveGlobalArgs'[r] = globalArgs
       /\ globalArgs' # globalArgs => \E g \in GlobalArgsValues : SetGlobalArgs(g)
       /\ \A r \in Runs : ~HasOverride(r)' => UsesCaptured(r)']_vars

\* After a resolution with the override "Temp", a resolution without an
\* override has used and reported the stored "Hello".
C13_Witness ==
    \E r, q \in Runs :
        /\ r < q
        /\ options[r] = [globalArgs |-> "Temp"]
        /\ phase[r] = "completed"
        /\ IsResult(LastEmitted(r))
        /\ options[q] = NoOptions
        /\ phase[q] = "completed"
        /\ globalArgs = "Hello"
        /\ IsResult(LastEmitted(q))
        /\ LastEmitted(q).globalArgs = "Hello"
        /\ \E t \in DOMAIN calls[q] \cap DOMAIN calls[r] :
              /\ Invoked(r, t) /\ LastCall(r, t).globalArgs = "Temp"
              /\ Invoked(q, t) /\ LastCall(q, t).globalArgs = "Hello"

\* C14: the value a resolution captured when it started never changes while it
\* is in flight; every task function of the resolution, whenever it starts, is
\* given that value and the result reports it; and a resolution that starts
\* without an override captures the value stored at that moment.
C14_SetterNotVisibleInFlight ==
    [][\A r \in Runs :
          /\ phase[r] # "idle" => effectiveGlobalArgs'[r] = effectiveGlobalArgs[r]
          /\ \A t \in DOMAIN calls'[r] :
                Len(calls'[r][t]) > (IF t \in DOMAIN calls[r] THEN Len(calls[r][t]) ELSE 0)
                    => calls'[r][t][Len(calls'[r][t])].globalArgs = effectiveGlobalArgs'[r]
          /\ (phase[r] # "completed" /\ phase'[r] = "completed") =>
                emitted'[r][Len(emitted'[r])].globalArgs = effectiveGlobalArgs'[r]
          /\ (Starts(r) /\ ~HasOverride(r)') =>
                effectiveGlobalArgs'[r] = globalArgs']_vars

\* The setter ran while the first resolution was in flight, which it still is:
\* its dependent task was given the captured value, which is no longer the
\* stored one, and the resolution started afterwards has captured the new value.
C14_Witness ==
    \E r, q \in Runs :
        /\ r < q
        /\ ~HasOverride(r) /\ ~HasOverride(q)
        /\ phase[q] # "idle"
        /\ DOMAIN unit[q] # {}
        /\ effectiveGlobalArgs[q] = globalArgs
        /\ effectiveGlobalArgs[r] # globalArgs
        /\ phase[r] = "running"
        /\ \E t \in DOMAIN calls[r] :
              /\ Get(t).producers # <<>>
              /\ Invoked(r, t)
              /\ LastCall(r, t).globalArgs = effectiveGlobalArgs[r]

\* C15: a register call with an id that is registered already throws the
\* duplicate-id error, whatever its dependencies, and leaves the registry as
\* it is: the existing task and every producers and consumers list.  In every
\* state, also after such a failure, a register call with a new id and
\* registered dependencies inserts the task.
C15_DuplicateRejected ==
    [][/\ raised' = "duplicate" => tasks' = tasks
       /\ RegisterStep =>
             \A id \in RegIds : \A deps \in RegDeps :
                 Register(id, deps) =>
                     /\ Has(id) => (raised' = "duplicate" /\ tasks' = tasks)
                     /\ (~Has(id) /\ Range(deps) \subseteq Ids) =>
                           /\ raised' = "none"
                           /\ Len(tasks') = Len(tasks) + 1
                           /\ tasks'[Len(tasks')] = TaskInfo(id, deps)]_vars

\* A duplicate registration has just failed on a registry whose tasks have
\* producers and consumers, and there is room for another task.
C15_Witness ==
    /\ raised = "duplicate"
    /\ Len(tasks) = 3
    /\ tasks[1].consumers = <<2, 3, 3>>
    /\ tasks[3].producers = <<1, 1>>

\* C16: a register call with a dependency list that names an id not
\* registered throws and leaves the registry as it is: the task is not
\* inserted and no consumers list is extended, also not that of a listed id
\* that is registered.  The error is the unknown-dependency error for a new
\* id; for an id that is registered already the duplicate check comes first.
C16_UnknownDependencyRejected ==
    [][/\ raised' = "unknownDependency" => tasks' = tasks
       /\ RegisterStep =>
             \A id \in RegIds : \A deps \in RegDeps :
                 (Register(id, deps) /\ ~(Range(deps) \subseteq Ids)) =>
                     /\ tasks' = tasks
                     /\ raised' = IF Has(id) THEN "duplicate" ELSE "unknownDependency"]_vars

\* A registration with an unknown dependency has just failed on a registry
\* that holds a task a mixed dependency list can name.
C16_Witness ==
    /\ raised = "unknownDependency"
    /\ Len(tasks) = 3
    /\ tasks[1].consumers = <<2>>
    /\ tasks[2].consumers = <<3>>
    /\ tasks[3].consumers = <<>>

\* C17: a resolution over a graph with a chain of producers longer than the
\* maximum number of iterations delivers no result.
C17_MaxIterationsReached ==
    \A r \in Runs :
        (Started(r) /\ \E t \in DOMAIN unit[r] : Depth(t) > Ceiling(r)) =>
            \A i \in DOMAIN emitted[r] : ~IsResult(emitted[r][i])

\* C18: the ids of the registry are distinct and every producer of a task was
\* registered strictly before the task, after any sequence of register calls:
\* no task is among its own direct or transitive producers, so in every
\* resolution some unfinished task never waits for a waiting task.
C18_Acyclic ==
    /\ \A i, j \in DOMAIN tasks : tasks[i].id = tasks[j].id => i = j
    /\ \A i \in DOMAIN tasks : \A p \in Range(tasks[i].producers) :
          \E j \in DOMAIN tasks : j < i /\ tasks[j].id = p
    /\ \A t \in Ids : t \notin Ancestors(t)
    /\ \A r \in Runs :
          (\E t \in DOMAIN unit[r] : unit[r][t] = "waiting") =>
              \E t \in DOMAIN unit[r] :
                  /\ unit[r][t] = "waiting"
                  /\ \A p \in Range(Get(t).producers) : unit[r][p] # "waiting"

\* A chain of three tasks was registered, failing calls among the register
\* calls, and a resolution of it has tasks waiting.
C18_Witness ==
    /\ Len(tasks) = 3
    /\ tasks[2].producers = <<1>>
    /\ tasks[3].producers = <<2>>
    /\ raised # "none"
    /\ \E r \in Runs :
          /\ DOMAIN unit[r] = {1, 2, 3}
          /\ unit[r][2] = "waiting"
          /\ unit[r][3] = "waiting"

\* C19: a step changes what at most one resolution owns (its handles, units,
\* calls, cancellation signal and emissions), so completing or cancelling one
\* resolution neither stops the other's units nor supplies its handles; and
\* what each resolution holds is what it produces by itself.
C19_RunsIndependent ==
    [][/\ \A r, q \in Runs :
             r # q => (RunState(r)' = RunState(r) \/ RunState(q)' = RunState(q))
       /\ \A r \in Runs : RunAlone(r)']_vars

\* The resolution started second was cancelled while it had a unit in flight;
\* the one started first is still running with a unit in flight and another
\* one published.
C19_Witness ==
    \E r, q \in Runs :
        /\ r < q
        /\ phase[q] = "cancelled"
        /\ destroy[q] /\ ~destroy[r]
        /\ \E t \in DOMAIN unit[q] : unit[q][t] = "stopped"
        /\ phase[r] = "running"
        /\ \E t, u \in DOMAIN unit[r] :
              /\ unit[r][t] = "running"
              /\ taskResults[r][u].state = "fulfilled"

\* C20: whatever the function returned, the value itself, a promise of it or
\* a stream that emits it first, a task that yields v has the result
\* { data: v } and nothing else: in its handle, in the bundle of every consumer
\* and in the final mapping.
C20_ShapesUniform ==
    \A r \in Runs : \A t \in DOMAIN calls[r] :
        (Invoked(r, t) /\ LastCall(r, t).outcome.kind = "value" /\ unit[r][t] = "done") =>
            LET v == LastCall(r, t).outcome.val
            IN  /\ LastCall(r, t).shape \in {"value", "promise", "stream", "syncStream"}
                /\ taskResults[r][t] = Fulfilled(<<t, [data |-> v]>>)
                /\ \A c \in DOMAIN calls[r] : \A i \in DOMAIN calls[r][c] :
                      t \in DOMAIN calls[r][c][i].args =>
                          calls[r][c][i].args[t] = [data |-> v]
                /\ (phase[r] = "completed" /\ IsResult(LastEmitted(r))) =>
                      LastEmitted(r).tasks[t] = [data |-> v]

\* A delivered resolution in which an immediate value, a promise and a stream
\* each yielded their task's value, the first two consumed by other tasks.
C20_Witness ==
    \E r \in Runs :
        /\ phase[r] = "completed"
        /\ DOMAIN calls[r] = {1, 2, 3}
        /\ Get(2).producers = <<1>>
        /\ Get(3).producers = <<2>>
        /\ \E a, b, c \in DOMAIN calls[r] :
              /\ LastCall(r, a).shape = "value"
              /\ LastCall(r, b).shape = "promise"
              /\ LastCall(r, c).shape \in {"stream", "syncStream"}
        /\ \A t \in DOMAIN calls[r] : LastEmitted(r).tasks[t] = [data |-> t]

----------------------------------------------------------------------------
\* Helpers of the properties on results, emissions and scheduling

\* Every task result there is in resolution r: in a supplied handle, in the
\* bundle of a call, in a delivered mapping.
TaskResultsOf(r) ==
    {Published(r, t) : t \in {q \in DOMAIN taskResults[r] : IsFulfilled(r, q)}}
    \cup UNION {UNION {{calls[r][t][i].args[p] : p \in DOMAIN calls[r][t][i].args} :
                          i \in DOMAIN calls[r][t]} : t \in DOMAIN calls[r]}
    \cup UNION {{emitted[r][i].tasks[t] : t \in DOMAIN emitted[r][i].tasks} :
                   i \in {j \in DOMAIN emitted[r] : IsResult(emitted[r][j])}}

\* The mappings the engine delivers, and the empty one.
Mappings ==
    {EmptyMap} \cup
    UNION {{emitted[r][i].tasks : i \in {j \in DOMAIN emitted[r] : IsResult(emitted[r][j])}} :
              r \in Runs}

----------------------------------------------------------------------------
\* Properties on results, emissions and scheduling

\* C21: every task result of a resolution, in a handle, in a bundle or in the
\* delivered mapping, has either the key data or the key error and no other,
\* so exactly one of isSuccess and isError holds for it.
C21_DataOrError ==
    \A r \in Runs : \A res \in TaskResultsOf(r) :
        /\ DOMAIN res \in {{"data"}, {"error"}}
        /\ isSuccess(res) # isError(res)

\* A delivered mapping with a success and an error, the error also in the
\* bundle of a consumer.
C21_Witness ==
    \E r \in Runs :
        /\ phase[r] = "completed"
        /\ \E a, b \in DOMAIN LastEmitted(r).tasks :
              /\ isSuccess(LastEmitted(r).tasks[a]) /\ ~isError(LastEmitted(r).tasks[a])
              /\ isError(LastEmitted(r).tasks[b]) /\ ~isSuccess(LastEmitted(r).tasks[b])
              /\ b \in DOMAIN LastCall(r, a).args

\* C22: hasNoErrors of a mapping is true exactly if every value of the
\* mapping is a success, which is exactly if no value is an error; it is true
\* of the empty mapping.
C22_HasNoErrors ==
    /\ hasNoErrors(EmptyMap)
    /\ \A m \in Mappings :
          /\ hasNoErrors(m) <=> \A k \in DOMAIN m : isSuccess(m[k])
          /\ hasNoErrors(m) <=> ~\E k \in DOMAIN m : isError(m[k])
          /\ hasNoErrors(m) <=> Cardinality({k \in DOMAIN m : "data" \in DOMAIN m[k]})
                                   = Cardinality(DOMAIN m)

\* hasNoErrors is false of a delivered mapping with two successes and an
\* error.
C22_Witness ==
    \E r \in Runs :
        /\ phase[r] = "completed"
        /\ IsResult(LastEmitted(r))
        /\ Cardinality(DOMAIN LastEmitted(r).tasks) = 3
        /\ Cardinality({k \in DOMAIN LastEmitted(r).tasks :
                           isSuccess(LastEmitted(r).tasks[k])}) = 2
        /\ ~hasNoErrors(LastEmitted(r).tasks)

\* C23: a resolution delivers its result at most once, as its last value, and
\* only when every task registered at its start has published; until then the
\* consumer has seen the loading marker at most; once the result is delivered
\* the stream is complete and nothing more is emitted.
C23_TerminalOnce ==
    [][\A r \in Runs :
          /\ Cardinality({i \in DOMAIN emitted'[r] : IsResult(emitted'[r][i])}) <= 1
          /\ (\E i \in DOMAIN emitted'[r] : IsResult(emitted'[r][i])) =>
                /\ IsResult(emitted'[r][Len(emitted'[r])])
                /\ phase'[r] = "completed"
                /\ \A t \in DOMAIN taskResults'[r] : taskResults'[r][t].state = "fulfilled"
          /\ (phase'[r] # "completed") =>
                \A i \in DOMAIN emitted'[r] : emitted'[r][i] = LoadingMarker
          /\ (phase'[r] = "completed" /\ phase[r] # "completed") =>
                /\ Len(emitted'[r]) = Len(emitted[r]) + 1
                /\ IsResult(emitted'[r][Len(emitted'[r])])
          /\ phase[r] = "completed" =>
                (phase'[r] = "completed" /\ emitted'[r] = emitted[r])]_vars

\* The result was delivered after the loading marker, once the promise of the
\* last task had settled, and a task was registered after the completion.
C23_Witness ==
    \E r \in Runs :
        /\ phase[r] = "completed"
        /\ Len(emitted[r]) = 2
        /\ emitted[r][1] = LoadingMarker
        /\ IsResult(emitted[r][2])
        /\ \E t \in DOMAIN calls[r] :
              LastCall(r, t).shape = "promise" /\ Get(t).producers # <<>>
        /\ Ids # DOMAIN unit[r]

\* C24: in a resolution every task without producers has been started from
\* the start on, and a task whose own producers have all published can be
\* started at once, whatever the other tasks are doing: the start of a task
\* waits for its producers only.
C24_FanOut ==
    \A r \in Runs :
        Started(r) =>
            \A t \in DOMAIN unit[r] :
                /\ Get(t).producers = <<>> => Invoked(r, t)
                /\ (unit[r][t] = "waiting"
                      /\ \A p \in Range(Get(t).producers) :
                            taskResults[r][p].state = "fulfilled")
                      => ENABLED (\E ret \in Returns : Invoke(r, t, ret))

\* A task was started when its producer had published, while a task that is
\* not among its producers is still running.
C24_Witness ==
    \E r \in Runs : \E t, u \in DOMAIN unit[r] :
        /\ Get(t).producers # <<>>
        /\ Invoked(r, t)
        /\ u \notin Ancestors(t) \cup {t}
        /\ t \notin Ancestors(u)
        /\ unit[r][u] = "running"
        /\ taskResults[r][u].state = "pending"

\* C25: whenever the consumer has stopped observing before the result, also
\* when it left upon the loading marker, the cancellation signal of the
\* resolution has been raised and no unit of it is still waiting or running.
C25_CancelledWheneverLeft ==
    \A r \in Runs :
        phase[r] \in {"cancelled", "detached"} =>
            /\ destroy[r]
            /\ \A t \in DOMAIN unit[r] : ~Live(unit[r][t])

\* C26: a resolution of the empty registry asked for the loading state sends
\* the loading marker first and the empty result after it.
C26_LoadingMarkerEmptyRegistry ==
    \A r \in Runs :
        (phase[r] # "idle" /\ DOMAIN unit[r] = {} /\ RequestedLoading(r)) =>
            /\ Len(emitted[r]) = 2
            /\ emitted[r][1] = LoadingMarker
            /\ IsResult(emitted[r][2])

\* C27: a task whose function returned a stream that completed without a
\* value has a result in its handle.
C27_EmptyStreamPublishes ==
    \A r \in Runs : \A t \in DOMAIN calls[r] :
        (Invoked(r, t) /\ LastCall(r, t).outcome.kind = "empty") =>
            taskResults[r][t].state = "fulfilled"

\* The first value of the stream the last call of t returned is in t's handle,
\* in every bundle that holds t and in the delivered mapping.
FirstValueKept(r, t) ==
    LET v == LastCall(r, t).outcome.val
    IN  /\ taskResults[r][t] = Fulfilled(<<t, [data |-> v]>>)
        /\ \A c \in DOMAIN calls[r] : \A i \in DOMAIN calls[r][c] :
              t \in DOMAIN calls[r][c][i].args =>
                  calls[r][c][i].args[t] = [data |-> v]
        /\ \A i \in DOMAIN emitted[r] :
              IsResult(emitted[r][i]) => emitted[r][i].tasks[t] = [data |-> v]

\* C28: a handle that has been supplied is never supplied again, and for a
\* task whose function returned a stream the first value the stream emitted
\* is the task's result, in the handle, for the consumers and in the final
\* mapping, whatever the stream emits or fails with afterwards.
C28_FirstEmissionOnly ==
    [][\A r \in Runs : \A t \in DOMAIN taskResults'[r] :
          /\ (t \in DOMAIN taskResults[r] /\ taskResults[r][t].state = "fulfilled")
                => taskResults'[r][t] = taskResults[r][t]
          /\ (unit'[r][t] = "done" /\ calls'[r][t] # <<>>
                /\ calls'[r][t][Len(calls'[r][t])].outcome.kind = "value")
                => FirstValueKept(r, t)']_vars

\* A stream failed after its first value; the task that consumes it was given
\* the first value, and the delivered mapping reports the first value.
C28_Witness ==
    \E r \in Runs : \E t, c \in DOMAIN calls[r] :
        /\ phase[r] = "completed"
        /\ Invoked(r, t)
        /\ LastCall(r, t).shape = "stream"
        /\ "later" \in DOMAIN LastCall(r, t).outcome
        /\ LastCall(r, t).outcome.later = "failure"
        /\ Invoked(r, c)
        /\ t \in DOMAIN LastCall(r, c).args
        /\ LastCall(r, c).args[t] = [data |-> t]
        /\ LastEmitted(r).tasks[t] = [data |-> t]

\* C29: the bundle of every call has the task's declared producers as its
\* keys, none for a task without producers, and no other key; under each key
\* it holds the result that producer published, which is the result the
\* delivered mapping reports for that producer.
C29_BundleIsProducers ==
    \A r \in Runs : \A t \in DOMAIN calls[r] : \A i \in DOMAIN calls[r][t] :
        LET args == calls[r][t][i].args
        IN  /\ DOMAIN args = Range(Get(t).producers)
            /\ Get(t).producers = <<>> => args = EmptyMap
            /\ \A q \in DOMAIN calls[r] \ Range(Get(t).producers) : q \notin DOMAIN args
            /\ \A p \in DOMAIN args :
                  /\ taskResults[r][p].state = "fulfilled"
                  /\ args[p] = Published(r, p)
                  /\ (phase[r] = "completed" /\ IsResult(LastEmitted(r))) =>
                        args[p] = LastEmitted(r).tasks[p]

\* In a delivered resolution a task with one declared producer was started
\* after a task it does not depend on had published: its bundle holds the
\* producer only.
C29_Witness ==
    \E r \in Runs : \E t, p, q \in DOMAIN calls[r] :
        /\ phase[r] = "completed"
        /\ Get(t).producers = <<p>>
        /\ q \notin {t, p}
        /\ Get(q).producers = <<>>
        /\ LastCall(r, q).shape = "value"
        /\ LastCall(r, p).shape = "promise"
        /\ Invoked(r, t)
        /\ DOMAIN LastCall(r, t).args = {p}
        /\ LastCall(r, t).args[p] = LastEmitted(r).tasks[p]

----------------------------------------------------------------------------
\* Helpers of the properties on laziness, the registry's adjacency and handles

\* Run r is a subscription that has been made.
Observed(r) == phase[r] \notin {"idle", "called"}

\* How often the function of task t has been invoked in run r.
Invocations(r, t) == IF t \in DOMAIN calls[r] THEN Len(calls[r][t]) ELSE 0

RECURSIVE Sum(_, _)
Sum(f, S) ==
    IF S = {} THEN 0
    ELSE LET x == CHOOSE y \in S : TRUE IN f[x] + Sum(f, S \ {x})

----------------------------------------------------------------------------
\* Properties on laziness, the registry's adjacency and handles

\* C31: a register call invokes no task function and creates no handle; the
\* resolve call returns without invoking a task function or creating a handle,
\* and as long as a stream is not subscribed to nothing of it exists; a task
\* function is invoked only in a subscription that has been made.
C31_Lazy ==
    [][/\ RegisterStep => (calls' = calls /\ taskResults' = taskResults)
       /\ \A r \in Runs :
             /\ (phase[r] = "idle" /\ phase'[r] # "idle") =>
                   /\ phase'[r] = "called"
                   /\ calls' = calls
                   /\ taskResults' = taskResults
             /\ ~Observed(r)' =>
                   /\ calls'[r] = EmptyMap
                   /\ taskResults'[r] = EmptyMap
             /\ \A t \in DOMAIN calls'[r] :
                   Invocations(r, t)' > Invocations(r, t) => Observed(r)']_vars

\* Two tasks are registered and resolve has been called: for a stream not
\* subscribed to nothing has been invoked and no handle exists; and the other
\* case, a subscription made, in which the task functions have run.
C31_Witness ==
    /\ Len(tasks) = 2
    /\ \E r, q \in Runs :
          /\ phase[r] = "called"
          /\ calls[r] = EmptyMap
          /\ taskResults[r] = EmptyMap
          /\ Observed(q)
          /\ \A t \in Ids : t \in DOMAIN calls[q] /\ Invoked(q, t)

\* C32: over all the subscriptions to the stream of one resolve call, every
\* task function is invoked at most once.
C32_OncePerCall ==
    \A t \in TaskIds :
        Sum([r \in Runs |-> Invocations(r, t)], Runs) <= 1

\* The producers and the consumers of the registry are inverses of each other:
\* y is in the consumers of x as often as x is in the producers of y.
Inverse ==
    \A i, j \in DOMAIN tasks :
        Count(tasks[i].consumers, tasks[j].id) = Count(tasks[j].producers, tasks[i].id)

\* C33: a register call that succeeds appends the task with producers = the
\* dependencies given and no consumers, appends the new id to the consumers of
\* each listed producer, once per occurrence, and changes nothing else; a call
\* that fails changes nothing; so after any sequence of register calls the
\* producers and the consumers are exact inverses; the successful call returns
\* normally, on the one registry every later call works on.
C33_AdjacencyInverse ==
    [][/\ Inverse'
       /\ tasks' # tasks =>
             /\ raised' = "none"
             /\ Len(tasks') = Len(tasks) + 1
             /\ LET new == tasks'[Len(tasks')]
                IN  /\ new.id \notin Ids
                    /\ new.consumers = <<>>
                    /\ Range(new.producers) \subseteq Ids
                    /\ Register(new.id, new.producers)
                    /\ \A i \in DOMAIN tasks :
                          /\ tasks'[i].id = tasks[i].id
                          /\ tasks'[i].producers = tasks[i].producers
                          /\ tasks'[i].consumers =
                                tasks[i].consumers
                                    \o Repeat(new.id, Count(new.producers, tasks[i].id))
       /\ raised' # "none" => tasks' = tasks
       /\ UNCHANGED <<globalArgs, runVars>>]_vars

\* Four tasks registered, failing calls among the register calls: a task that
\* names one producer twice is twice in that producer's consumers, and a task
\* registered without dependencies has none.
C33_Witness ==
    /\ Len(tasks) = 4
    /\ raised # "none"
    /\ tasks[2].producers = <<>>
    /\ tasks[3].producers = <<1, 1>>
    /\ tasks[4].producers = <<2, 1>>
    /\ tasks[1].consumers = <<3, 3, 4>>
    /\ tasks[2].consumers = <<4>>

C35_RootsBeforeLoadingMarker ==
    [][\A r \in Runs :
          /\ (emitted[r] = <<>> /\ emitted'[r] # <<>> /\ emitted'[r][1] = LoadingMarker) =>
                \A t \in DOMAIN calls'[r] :
                    IF Get(t).producers = <<>>
                    THEN /\ Len(calls'[r][t]) = 1
                         /\ calls'[r][t][1].shape \in {"value", "syncStream"} =>
                               taskResults'[r][t].state = "fulfilled"
                    ELSE calls'[r][t] = <<>>
          /\ \A t \in DOMAIN calls'[r] :
                (RequestedLoading(r)' /\ Get(t).producers # <<>>
                   /\ Invocations(r, t)' > Invocations(r, t)) =>
                    /\ emitted[r] # <<>>
                    /\ emitted[r][1] = LoadingMarker]_vars

\* The loading marker is all the consumer has so far: a task without producers
\* that returned a value has published, one that returned a promise is
\* running, and a task with a producer has been invoked since.
C35_Witness ==
    \E r \in Runs : \E a, b, c \in DOMAIN calls[r] :
        /\ RequestedLoading(r)
        /\ emitted[r] = <<LoadingMarker>>
        /\ Get(a).producers = <<>> /\ Get(b).producers = <<>>
        /\ LastCall(r, a).shape = "value"
        /\ taskResults[r][a].state = "fulfilled"
        /\ LastCall(r, b).shape = "promise"
        /\ taskResults[r][b].state = "pending"
        /\ Get(c).producers = <<a>>
        /\ Invoked(r, c)

\* What the readers of the handle of t have obtained in run r: the bundles
\* built from it and the delivered mapping.
Readings(r, t) ==
    UNION {{calls[r][c][i].args[t] :
               i \in {j \in DOMAIN calls[r][c] : t \in DOMAIN calls[r][c][j].args}} :
              c \in DOMAIN calls[r]}
    \cup {emitted[r][i].tasks[t] :
             i \in {j \in DOMAIN emitted[r] : IsResult(emitted[r][j])}}

\* C36: a handle that has been supplied keeps its value in every step, a
\* second call of its resolve function included; every reader of the handle,
\* whether its forkJoin was subscribed before the supply or after it, has
\* obtained the value the handle holds; a handle is pending or fulfilled, never
\* rejected, and the handle of a task that failed is fulfilled with { error }.
C36_SingleAssignment ==
    [][\A r \in Runs : \A t \in DOMAIN taskResults'[r] :
          /\ (t \in DOMAIN taskResults[r] /\ taskResults[r][t].state = "fulfilled")
                => taskResults'[r][t] = taskResults[r][t]
          /\ taskResults'[r][t].state \in {"pending", "fulfilled"}
          /\ taskResults'[r][t].state = "fulfilled" =>
                /\ Came(r, t)'
                /\ Published(r, t)' = OwnResult(r, t)'
                /\ LastCall(r, t)'.outcome.kind = "failure" =>
                      Published(r, t)' = [error |-> t]
          /\ \A v \in Readings(r, t)' :
                /\ taskResults'[r][t].state = "fulfilled"
                /\ v = Published(r, t)']_vars

\* A delivered resolution: one producer returned a value, supplied before the
\* consumer's join was subscribed, the other a promise that was rejected,
\* supplied after; the resolve function of both handles was called a second
\* time; the consumer's bundle and the mapping hold what the handles hold.
C36_Witness ==
    \E r \in Runs : \E a, b, c \in DOMAIN calls[r] :
        /\ phase[r] = "completed"
        /\ Get(c).producers = <<a, b>>
        /\ LastCall(r, a).shape = "value"
        /\ LastCall(r, b).shape = "promise"
        /\ "again" \in DOMAIN LastCall(r, a).outcome
        /\ "again" \in DOMAIN LastCall(r, b).outcome
        /\ taskResults[r][a] = Fulfilled(<<a, [data |-> a]>>)
        /\ taskResults[r][b] = Fulfilled(<<b, [error |-> b]>>)
        /\ Invoked(r, c)
        /\ LastCall(r, c).args = (a :> [data |-> a]) @@ (b :> [error |-> b])
        /\ LastEmitted(r).tasks[a] = [data |-> a]
        /\ LastEmitted(r).tasks[b] = [error |-> b]

====
